---- MODULE Spec2Model ----
(***************************************************************************)
(* School timetable generator (src/tt.py): the sqlite tables, the          *)
(* generation run generate_timetable, the manual edit                      *)
(* update_timetable_entry, and the sessions that run them.                 *)
(*                                                                         *)
(* Text columns.  A label (a grade, a section) is a sequence of            *)
(* characters; a comma-separated column (teachers.grades,                  *)
(* subjects.sections) is the sequence of its labels, which is what         *)
(* [x.strip() for x in col.split(",")] yields.  SQL instr(col, label)      *)
(* searches the raw text: a label holds no comma, so it matches iff it is  *)
(* an infix of one of the items.  Weekday names are whole words, none an   *)
(* infix of another, so a day column is a sequence of day names and        *)
(* instr on it is membership.                                              *)
(***************************************************************************)
EXTENDS Integers, Sequences, FiniteSets, TLC

VARIABLES
    teachers,               \* table teachers: row i has id i (AUTOINCREMENT)
    subjects,               \* table subjects, in rowid order
    absentees,              \* table absentees: day_of_week -> set of names
    periods_per_day,        \* settings['periods_per_day'], the run's periods_per_day
    grades_sections,        \* get_all_grades_sections(), as the page computed it
    teacher_busy_periods,   \* table teacher_busy_periods: committed rows, in rowid order
    writer,                 \* session whose connection holds sqlite's write lock
                            \* (uncommitted inserts), 0 when free
    run,                    \* per session: the locals of its generate_timetable call
    started,                \* per session: the generation runs it has started
    before,                 \* per session: teacher_busy_periods when its run began
    last_commit,            \* the rows written by the latest committed run
    view,                   \* what the latest get_timetable_for_grade_section saw
    random,                 \* module random: whether the caller seeds it before a run,
                            \* and then the draws the seed yields and the position in them
    edit                    \* per session: its update_timetable_entry call (the
                            \* definition its caller is bound to, arguments, position)

vars == <<teachers, subjects, absentees, periods_per_day, grades_sections,
          teacher_busy_periods,
          writer, run, started, before, last_commit, view, random, edit>>

(* ------------------------------ bounds --------------------------------- *)

MaxPeriods == 3

MaxSubjectRows == 2

MaxTeacherRows == 2

MaxRuns == 2

NumSessions == 2

MaxEdits == 3

MaxEditDays == 1

Sessions == 1..NumSessions

(* ------------------------------ text ----------------------------------- *)

Days == <<"Monday", "Tuesday", "Wednesday", "Thursday", "Friday">>

FullWeek == 5

IsInfix(needle, hay) ==
    \E i \in 0..(Len(hay) - Len(needle)) : SubSeq(hay, i + 1, i + Len(needle)) = needle

instr(column, label) == \E i \in 1..Len(column) : IsInfix(label, column[i])

Listed(column, item) == \E i \in 1..Len(column) : column[i] = item

Alphabet == <<"0", "1", "A", "B">>

CharRank(c) == CHOOSE i \in 1..Len(Alphabet) : Alphabet[i] = c

RECURSIVE LexLeq(_, _)
LexLeq(a, b) ==
    IF a = <<>> THEN TRUE
    ELSE IF b = <<>> THEN FALSE
    ELSE IF a[1] = b[1] THEN LexLeq(Tail(a), Tail(b))
    ELSE CharRank(a[1]) < CharRank(b[1])

RECURSIVE sorted(_)
sorted(S) ==
    IF S = {} THEN <<>>
    ELSE LET m == CHOOSE x \in S : \A y \in S : LexLeq(x, y)
         IN  <<m>> \o sorted(S \ {m})

Range(seq) == {seq[i] : i \in 1..Len(seq)}

(* ------------------------------ inputs --------------------------------- *)

G1 == <<"1">>

G10 == <<"1", "0">>

SecA == <<"A">>

SecB == <<"B">>

SubjectPool ==
    { [subject_name |-> "Math", grade |-> G1, periods_per_week |-> 1,
       sections |-> <<SecA, SecB>>, active_days |-> <<"Monday">>],
      [subject_name |-> "Math", grade |-> G1, periods_per_week |-> 5,
       sections |-> <<SecA>>, active_days |-> Days],
      [subject_name |-> "Science", grade |-> G1, periods_per_week |-> 2,
       sections |-> <<SecA>>, active_days |-> Days],
      [subject_name |-> "Math", grade |-> G10, periods_per_week |-> 5,
       sections |-> <<SecA>>, active_days |-> <<"Monday">>] }

TeacherPool ==
    << [teacher_name |-> "Asha", subject |-> "Math", grades |-> <<G1, G10>>],
       [teacher_name |-> "Ravi", subject |-> "Math", grades |-> <<G10>>],
       [teacher_name |-> "Coach", subject |-> "Games", grades |-> <<G1>>],
       [teacher_name |-> "Coach", subject |-> "Games", grades |-> <<G10>>] >>

Injective(f) == \A i, j \in DOMAIN f : f[i] = f[j] => i = j

SubjectTables ==
    UNION { {t \in [1..n -> SubjectPool] : Injective(t)} : n \in 1..MaxSubjectRows }

TeacherTables ==
    UNION { { [i \in 1..n |-> TeacherPool[pick[i]]] :
              pick \in {p \in [1..n -> 1..Len(TeacherPool)] :
                            \A i, j \in 1..n : i < j => p[i] < p[j]} } :
            n \in 0..MaxTeacherRows }

AbsenceRosters ==
    { [d \in Range(Days) |-> IF d = "Monday" THEN names ELSE {}] :
      names \in {{}, {"Asha", "Coach"}} }

(* ------------------- get_all_grades_sections --------------------------- *)

\* SELECT DISTINCT grade FROM subjects: the grades, in order of first appearance
distinct_grades(rows) ==
    LET F[i \in 0..Len(rows)] ==
            IF i = 0 THEN <<>>
            ELSE IF Listed(F[i - 1], rows[i].grade) THEN F[i - 1]
            ELSE Append(F[i - 1], rows[i].grade)
    IN  F[Len(rows)]

\* the dict get_all_grades_sections returns: per grade, "sections" is
\* sorted(list(sections)) and "active_days_map"[sec] is set by every row of the
\* grade that lists sec, so the last such row decides
get_all_grades_sections(rows) ==
    LET of_grade(g) == {i \in 1..Len(rows) : rows[i].grade = g}
        labels(g) == UNION {Range(rows[i].sections) : i \in of_grade(g)}
        last_row(g, sec) ==
            CHOOSE i \in of_grade(g) :
                /\ Listed(rows[i].sections, sec)
                /\ \A j \in of_grade(g) : Listed(rows[j].sections, sec) => j <= i
    IN  [keys |-> distinct_grades(rows),
         info |-> [g \in Range(distinct_grades(rows)) |->
                      [sections |-> sorted(labels(g)),
                       active_days_map |->
                           [sec \in labels(g) |-> rows[last_row(g, sec)].active_days]]]]

grades_keys == grades_sections.keys

sections_of(g) == grades_sections.info[g].sections

\* active_days_map.get(sec, [])
active_days_map(g, sec) ==
    IF sec \in DOMAIN grades_sections.info[g].active_days_map
    THEN grades_sections.info[g].active_days_map[sec]
    ELSE <<>>

(* ----------------------- generate_timetable ---------------------------- *)

IdleRun ==
    [pc |-> "idle", oi |-> 0, gi |-> 0, si |-> 0, di |-> 0, period_num |-> 0,
     subs |-> <<>>, k |-> 0, teacher_load |-> {}, subject_count |-> <<>>,
     txn |-> <<>>, teachers_all |-> <<>>]

MidRun == {"cleared", "assigned", "outer", "day", "while", "for"}

cur_grade(r) == grades_keys[r.gi]

cur_sec(r) == sections_of(cur_grade(r))[r.si]

cur_day(r) == Days[r.di]

\* if sec not in active_days_map or day not in active_days_map[sec]: continue
attends(r) == Listed(active_days_map(cur_grade(r), cur_sec(r)), cur_day(r))

\* SELECT subject_name, periods_per_week FROM subjects
\* WHERE grade=? AND instr(sections, ?) > 0 AND instr(active_days, ?) > 0
subs_query(g, sec, day) ==
    LET hit(row) == /\ row.grade = g
                    /\ instr(row.sections, sec)
                    /\ Listed(row.active_days, day)
        rows == SelectSeq(subjects, hit)
    IN  [i \in 1..Len(rows) |->
            [subject_name |-> rows[i].subject_name,
             periods_per_week |-> rows[i].periods_per_week]]

\* random.shuffle(subs): any order
shuffles(seq) ==
    { [i \in 1..Len(seq) |-> seq[p[i]]] : p \in Permutations(1..Len(seq)) }

SubjectDayCap == 2

\* max 2 periods per day, relaxed to periods_per_day for part-time sections
max_periods_per_day(g, sec) ==
    IF Len(active_days_map(g, sec)) < FullWeek THEN periods_per_day ELSE SubjectDayCap

count_of(subject_count, key) ==
    IF key \in DOMAIN subject_count THEN subject_count[key] ELSE 0

\* available_teachers without the test of the day's absence roster
available_teachers_absent_too(teachers_all, teacher_load, subj_name, g, day, period_num) ==
    { tid \in 1..Len(teachers_all) :
        /\ teachers_all[tid].subject = subj_name
        /\ Listed(teachers_all[tid].grades, g)
        /\ <<tid, day, period_num>> \notin teacher_load }

\* teachers of the subject and the grade, not absent that day, not already loaded
\* at that period that day
available_teachers(teachers_all, teacher_load, subj_name, g, day, period_num) ==
    { tid \in 1..Len(teachers_all) :
        /\ teachers_all[tid].subject = subj_name
        /\ Listed(teachers_all[tid].grades, g)
        /\ teachers_all[tid].teacher_name \notin absentees[day]
        /\ <<tid, day, period_num>> \notin teacher_load }

\* SELECT id, teacher_name FROM teachers WHERE subject='Games' AND instr(grades, ?) > 0
\* then fetchone(): the first such row, none when there is none
games_teacher(g) ==
    LET ids == {tid \in 1..Len(teachers) :
                   teachers[tid].subject = "Games" /\ instr(teachers[tid].grades, g)}
    IN  IF ids = {} THEN {} ELSE {CHOOSE t \in ids : \A u \in ids : t <= u}

\* the teacher the attempt may bind: random.choice(available_teachers), else the
\* Games teacher, else none
candidates(r) ==
    LET avail == available_teachers(r.teachers_all, r.teacher_load,
                                    r.subs[r.k].subject_name, cur_grade(r),
                                    cur_day(r), r.period_num)
    IN  IF avail # {} THEN avail ELSE games_teacher(cur_grade(r))

cap_reached(r) ==
    count_of(r.subject_count, <<cur_sec(r), cur_day(r), r.subs[r.k].subject_name>>)
        >= max_periods_per_day(cur_grade(r), cur_sec(r))

\* the loops' next (grade, section, day), or the end of the outer iteration
after_day(r) ==
    LET b == [r EXCEPT !.period_num = 0, !.subs = <<>>, !.k = 0]
    IN  IF r.di < Len(Days)
            THEN [b EXCEPT !.pc = "day", !.di = r.di + 1]
        ELSE IF r.si < Len(sections_of(cur_grade(r)))
            THEN [b EXCEPT !.pc = "day", !.si = r.si + 1, !.di = 1]
        ELSE IF r.gi < Len(grades_keys)
            THEN [b EXCEPT !.pc = "day", !.gi = r.gi + 1, !.si = 1, !.di = 1]
        ELSE [b EXCEPT !.pc = "outer", !.oi = r.oi + 1, !.gi = 0, !.si = 0, !.di = 0]

\* the for loop's next subject, or back to the while test
next_subject(r) ==
    IF r.k < Len(r.subs) THEN [r EXCEPT !.k = r.k + 1]
    ELSE [r EXCEPT !.pc = "while", !.k = 0]

Tables == <<teachers, subjects, absentees, periods_per_day, grades_sections>>

RECURSIVE sum_over(_, _)
sum_over(f, S) ==
    IF S = {} THEN 0
    ELSE LET x == CHOOSE y \in S : TRUE IN f[x] + sum_over(f, S \ {x})

total_started == sum_over(started, Sessions)

Ghosts == <<before, last_commit, view>>

\* a generator whose seeded draws do not follow the seed: any outcome may come
Draw_any(fn, arg, out) == UNCHANGED random

\* one call of random.shuffle or random.choice on argument arg giving out.  Unseeded,
\* any outcome may come.  Seeded, the outcome is a function of the seed, the draws
\* made since seeding and the argument: a draw the seed has yielded before at this
\* position for this argument comes again; otherwise it is a new draw of the seed
Draw(fn, arg, out) ==
    IF ~random.seeded THEN UNCHANGED random
    ELSE LET p == random.pos
             known == /\ p <= Len(random.stream)
                      /\ random.stream[p].fn = fn
                      /\ random.stream[p].arg = arg
         IN  /\ known => out = random.stream[p].out
             /\ random' = [random EXCEPT
                    !.pos = p + 1,
                    !.stream = IF known THEN @
                               ELSE Append(SubSeq(@, 1, p - 1),
                                           [fn |-> fn, arg |-> arg, out |-> out])]

\* clear_timetable() without its DELETE
ClearTimetable_keeps_rows(s) ==
    /\ run[s].pc = "idle"
    /\ total_started < MaxRuns
    /\ writer = 0
    /\ teacher_busy_periods' = teacher_busy_periods
    /\ run' = [run EXCEPT ![s].pc = "cleared"]
    /\ started' = [started EXCEPT ![s] = started[s] + 1]
    /\ before' = [before EXCEPT ![s] = teacher_busy_periods]
    /\ UNCHANGED <<Tables, writer, last_commit, view, random, edit>>

\* clear_timetable(): DELETE FROM teacher_busy_periods; commit
ClearTimetable(s) ==
    /\ run[s].pc = "idle"
    /\ total_started < MaxRuns
    /\ writer = 0
    /\ teacher_busy_periods' = <<>>
    /\ run' = [run EXCEPT ![s].pc = "cleared"]
    /\ started' = [started EXCEPT ![s] = started[s] + 1]
    /\ before' = [before EXCEPT ![s] = teacher_busy_periods]
    /\ UNCHANGED <<Tables, writer, last_commit, view, random, edit>>

\* assign_games_and_library(): add a Games and a Library teacher when missing
AssignGamesAndLibrary(s) ==
    LET all_grades == grades_keys
        games == IF \E i \in 1..Len(teachers) : teachers[i].subject = "Games"
                 THEN <<>>
                 ELSE <<[teacher_name |-> "Games Teacher", subject |-> "Games",
                         grades |-> all_grades]>>
        library == IF \E i \in 1..Len(teachers) : teachers[i].subject = "Library"
                   THEN <<>>
                   ELSE <<[teacher_name |-> "Library Teacher", subject |-> "Library",
                           grades |-> all_grades]>>
    IN  /\ run[s].pc = "cleared"
        /\ (games \o library # <<>>) => writer = 0
        /\ teachers' = teachers \o games \o library
        /\ run' = [run EXCEPT ![s].pc = "assigned"]
        /\ UNCHANGED <<subjects, absentees, periods_per_day, grades_sections,
                       teacher_busy_periods, writer, started, Ghosts, random, edit>>

\* SELECT id, teacher_name, subject, grades FROM teachers; teachers_all = fetchall()
LoadTeachers(s) ==
    /\ run[s].pc = "assigned"
    /\ run' = [run EXCEPT ![s].pc = "outer", ![s].oi = 1, ![s].teachers_all = teachers]
    /\ UNCHANGED <<Tables, teacher_busy_periods, writer, started, Ghosts, random, edit>>

\* for grade, info in grades_sections.items(): teacher_load = {}; subject_count = {}
OuterGrade(s) ==
    /\ run[s].pc = "outer"
    /\ run[s].oi <= Len(grades_keys)
    /\ run' = [run EXCEPT ![s].pc = "day", ![s].gi = 1, ![s].si = 1, ![s].di = 1,
                          ![s].teacher_load = {}, ![s].subject_count = <<>>]
    /\ UNCHANGED <<Tables, teacher_busy_periods, writer, started, Ghosts, random, edit>>

\* a day the section does not attend: continue
SkipDay(s) ==
    /\ run[s].pc = "day"
    /\ ~attends(run[s])
    /\ run' = [run EXCEPT ![s] = after_day(run[s])]
    /\ UNCHANGED <<Tables, teacher_busy_periods, writer, started, Ghosts, random, edit>>

\* period_num = 1; subs = the subjects of the day; random.shuffle(subs)
BeginDay(s) ==
    /\ run[s].pc = "day"
    /\ attends(run[s])
    /\ LET subs == subs_query(cur_grade(run[s]), cur_sec(run[s]), cur_day(run[s]))
       IN  \E order \in shuffles(subs) :
              /\ run' = [run EXCEPT ![s].pc = "while", ![s].period_num = 1,
                                    ![s].subs = order]
              /\ Draw("shuffle", subs, order)
    /\ UNCHANGED <<Tables, teacher_busy_periods, writer, started, Ghosts, edit>>

\* while period_num <= periods_per_day and subs:
WhileTest(s) ==
    /\ run[s].pc = "while"
    /\ run' = [run EXCEPT ![s] =
                  IF run[s].period_num <= periods_per_day /\ run[s].subs # <<>>
                  THEN [run[s] EXCEPT !.pc = "for", !.k = 1]
                  ELSE after_day(run[s])]
    /\ UNCHANGED <<Tables, teacher_busy_periods, writer, started, Ghosts, random, edit>>

\* the subject is at its cap for the day, or has no available teacher and there is
\* no Games teacher: continue
SkipSubject(s) ==
    /\ run[s].pc = "for"
    /\ cap_reached(run[s]) \/ candidates(run[s]) = {}
    /\ run' = [run EXCEPT ![s] = next_subject(run[s])]
    /\ UNCHANGED <<Tables, teacher_busy_periods, writer, started, Ghosts, random, edit>>

\* INSERT INTO teacher_busy_periods; update the tracking; period_num += 1
PlaceSubject(s) ==
    LET r == run[s]
        key == <<cur_sec(r), cur_day(r), r.subs[r.k].subject_name>>
    IN  /\ r.pc = "for"
        /\ ~cap_reached(r)
        /\ writer \in {0, s}
        /\ \E tid \in candidates(r) :
             LET row == [teacher_id |-> tid, grade |-> cur_grade(r),
                         section |-> cur_sec(r), period_number |-> r.period_num,
                         day_of_week |-> cur_day(r)]
                 placed == [r EXCEPT
                     !.txn = Append(r.txn, row),
                     !.teacher_load = r.teacher_load \cup {<<tid, cur_day(r), r.period_num>>},
                     !.subject_count =
                         [x \in DOMAIN r.subject_count \cup {key} |->
                             IF x = key THEN count_of(r.subject_count, key) + 1
                             ELSE r.subject_count[x]],
                     !.period_num = r.period_num + 1]
                 avail == available_teachers(r.teachers_all, r.teacher_load,
                                             r.subs[r.k].subject_name, cur_grade(r),
                                             cur_day(r), r.period_num)
             IN  /\ run' = [run EXCEPT ![s] =
                               IF placed.period_num > periods_per_day
                               THEN after_day(placed)
                               ELSE next_subject(placed)]
                 /\ IF avail # {} THEN Draw("choice", avail, tid) ELSE UNCHANGED random
        /\ writer' = s
        /\ UNCHANGED <<Tables, teacher_busy_periods, started, Ghosts, edit>>

\* conn.commit(); conn.close()
Commit(s) ==
    /\ run[s].pc = "outer"
    /\ run[s].oi > Len(grades_keys)
    /\ run[s].txn # <<>> => writer = s
    /\ teacher_busy_periods' = teacher_busy_periods \o run[s].txn
    /\ last_commit' = run[s].txn
    /\ writer' = IF writer = s THEN 0 ELSE writer
    /\ run' = [run EXCEPT ![s] = [IdleRun EXCEPT !.pc = "done"]]
    /\ UNCHANGED <<Tables, started, before, view, random, edit>>

(* ------------------------- sessions, readers --------------------------- *)

\* generate_timetable is left by an exception before conn.commit()
\* (sqlite3.OperationalError when the database stays locked, the script run being
\* stopped): the connection is dropped and its pending inserts are rolled back
Fail(s) ==
    /\ run[s].pc \in MidRun
    /\ run' = [run EXCEPT ![s] = [IdleRun EXCEPT !.pc = "failed"]]
    /\ writer' = IF writer = s THEN 0 ELSE writer
    /\ UNCHANGED <<Tables, teacher_busy_periods, started, Ghosts, random, edit>>

\* the session's script is run again: the button can be pressed once more; a caller
\* that seeds the generator seeds it again with the same seed
Rerun(s) ==
    /\ run[s].pc \in {"done", "failed"}
    /\ run' = [run EXCEPT ![s].pc = "idle"]
    /\ random' = IF random.seeded THEN [random EXCEPT !.pos = 1] ELSE random
    /\ UNCHANGED <<Tables, teacher_busy_periods, writer, started, Ghosts, edit>>

\* get_timetable_for_grade_section: day -> period -> (teacher_name, subject) of the
\* committed rows joined with teachers; a later row of a slot overwrites an earlier
timetable_of(rows, g, sec) ==
    LET hits == {i \in 1..Len(rows) :
                    /\ rows[i].grade = g
                    /\ rows[i].section = sec
                    /\ rows[i].teacher_id \in 1..Len(teachers)}
        slot(i) == <<rows[i].day_of_week, rows[i].period_number>>
    IN  [sl \in {slot(i) : i \in hits} |->
            LET last == CHOOSE i \in hits :
                            slot(i) = sl /\ \A j \in hits : slot(j) = sl => j <= i
            IN  <<teachers[rows[last].teacher_id].teacher_name,
                  teachers[rows[last].teacher_id].subject>>]

\* a viewer session reads the stored timetable of one section
ReadTimetable ==
    /\ \E g \in Range(grades_keys) : \E sec \in Range(sections_of(g)) :
          view' = [grade |-> g, section |-> sec,
                   timetable |-> timetable_of(teacher_busy_periods, g, sec),
                   during |-> {s \in Sessions : run[s].pc \in MidRun},
                   complete |-> {timetable_of(before[s], g, sec) :
                                    s \in {t \in Sessions : run[t].pc \in MidRun}}
                                \cup {timetable_of(last_commit, g, sec)}]
    /\ UNCHANGED <<Tables, teacher_busy_periods, writer, run, started, before, last_commit,
                   random, edit>>

(* ---------------------- update_timetable_entry ------------------------- *)

\* no call in progress.  Definition 1 is the function of lines 447-509, which the
\* edit form calls, on timetable.db; definition 2 is the one of lines 826-891, whose
\* get_conn (line 778) opens school_timetable.db.  The tables are those of the
\* database the definition is connected to.
IdleEdit ==
    [pc |-> "idle", definition |-> 1, calls |-> 0, grade |-> <<>>, section |-> <<>>,
     day |-> "", period |-> 0, teacher_id |-> 0, result |-> "none"]

\* the call returns (or raises) with the given message
returned(e, message) ==
    [IdleEdit EXCEPT !.definition = e.definition, !.calls = e.calls, !.result = message]

total_calls == sum_over([s \in Sessions |-> edit[s].calls], Sessions)

EditDays == {Days[i] : i \in 1..MaxEditDays}

NoEdit == <<Tables, writer, run, started, Ghosts, random>>

\* rows of the slot (grade, section, day, period)
slot_of(rows, g, sec, day, p) ==
    {i \in 1..Len(rows) : /\ rows[i].grade = g
                          /\ rows[i].section = sec
                          /\ rows[i].day_of_week = day
                          /\ rows[i].period_number = p}

\* fetchone(): the first row of a result, in rowid order
first_row(ids) == CHOOSE i \in ids : \A j \in ids : i <= j

\* the call starts: SELECT ... FROM teachers WHERE id=?, then grade in tgrades
UpdateBegin(s) ==
    /\ edit[s].pc = "idle"
    /\ total_calls < MaxEdits
    /\ \E g \in Range(grades_keys) : \E sec \in Range(sections_of(g)) :
       \E day \in EditDays : \E p \in 1..periods_per_day :
       \E tid \in 1..(Len(teachers) + 1) :
          LET call == [edit[s] EXCEPT !.grade = g, !.section = sec, !.day = day,
                                      !.period = p, !.teacher_id = tid,
                                      !.calls = @ + 1, !.result = "none"]
          IN  edit' = [edit EXCEPT ![s] =
                  IF tid \notin 1..Len(teachers)
                      THEN returned(call, "Teacher not found")
                  ELSE IF ~Listed(teachers[tid].grades, g)
                      THEN returned(call, "Teacher does not teach this grade")
                  ELSE [call EXCEPT !.pc = "busy"]]
    /\ UNCHANGED <<NoEdit, teacher_busy_periods>>

\* SELECT COUNT(*) FROM teacher_busy_periods WHERE teacher_id=? AND day_of_week=?
\* AND period_number=? AND NOT (grade=? AND section=?)
UpdateBusyCheck(s) ==
    LET e == edit[s]
        count == Cardinality({i \in 1..Len(teacher_busy_periods) :
                    /\ teacher_busy_periods[i].teacher_id = e.teacher_id
                    /\ teacher_busy_periods[i].day_of_week = e.day
                    /\ teacher_busy_periods[i].period_number = e.period
                    /\ ~(/\ teacher_busy_periods[i].grade = e.grade
                         /\ teacher_busy_periods[i].section = e.section)})
    IN  /\ e.pc = "busy"
        /\ edit' = [edit EXCEPT ![s] =
               IF count > 0 THEN returned(e, "Teacher already assigned at this time")
               ELSE [e EXCEPT !.pc = IF e.definition = 1 THEN "subject" ELSE "cap"]]
        /\ UNCHANGED <<NoEdit, teacher_busy_periods>>

\* definition 1: the slot's first row whose teacher has the same subject must be this
\* teacher's
UpdateSubjectCheck(s) ==
    LET e == edit[s]
        same == {i \in slot_of(teacher_busy_periods, e.grade, e.section, e.day, e.period) :
                    teachers[teacher_busy_periods[i].teacher_id].subject
                        = teachers[e.teacher_id].subject}
    IN  /\ e.pc = "subject"
        /\ edit' = [edit EXCEPT ![s] =
               IF same # {} /\ teacher_busy_periods[first_row(same)].teacher_id # e.teacher_id
               THEN returned(e, "Another teacher already teaches this subject at this time")
               ELSE [e EXCEPT !.pc = "write"]]
        /\ UNCHANGED <<NoEdit, teacher_busy_periods>>

\* definition 2: SELECT sections FROM subjects WHERE grade=? AND subject_name=?, of
\* which fetchone()[0] raises TypeError when there is no row; when the section is
\* listed by that first row, at most 2 rows of the subject that day in the section
UpdateCapCheck(s) ==
    LET e == edit[s]
        subject == teachers[e.teacher_id].subject
        rows == {r \in 1..Len(subjects) :
                    subjects[r].grade = e.grade /\ subjects[r].subject_name = subject}
        period_count ==
            Cardinality({i \in 1..Len(teacher_busy_periods) :
                /\ teacher_busy_periods[i].grade = e.grade
                /\ teacher_busy_periods[i].section = e.section
                /\ teacher_busy_periods[i].day_of_week = e.day
                /\ teachers[teacher_busy_periods[i].teacher_id].subject = subject})
    IN  /\ e.pc = "cap"
        /\ edit' = [edit EXCEPT ![s] =
               IF rows = {} THEN returned(e, "TypeError")
               ELSE IF /\ Listed(subjects[first_row(rows)].sections, e.section)
                       /\ period_count >= SubjectDayCap
                   THEN returned(e, "Maximum 2 periods per subject per day allowed for this section.")
               ELSE [e EXCEPT !.pc = "write"]]
        /\ UNCHANGED <<NoEdit, teacher_busy_periods>>

\* definition 1: UPDATE the slot's first row, or INSERT when the slot has none.
\* definition 2: DELETE the slot's rows, INSERT the new one.  Then commit.
\* (The SELECT of the existing row and the write are taken as one step.)
UpdateWrite(s) ==
    LET e == edit[s]
        old == slot_of(teacher_busy_periods, e.grade, e.section, e.day, e.period)
        row == [teacher_id |-> e.teacher_id, grade |-> e.grade, section |-> e.section,
                period_number |-> e.period, day_of_week |-> e.day]
        kept(i) == i \notin old
    IN  /\ e.pc = "write"
        /\ writer = 0
        /\ teacher_busy_periods' =
               IF e.definition = 1
               THEN IF old # {}
                    THEN [teacher_busy_periods EXCEPT ![first_row(old)].teacher_id =
                              e.teacher_id]
                    ELSE Append(teacher_busy_periods, row)
               ELSE Append([j \in 1..(Len(teacher_busy_periods) - Cardinality(old)) |->
                               teacher_busy_periods[
                                   CHOOSE i \in 1..Len(teacher_busy_periods) :
                                       /\ kept(i)
                                       /\ Cardinality({k \in 1..i : kept(k)}) = j]],
                           row)
        /\ edit' = [edit EXCEPT ![s] =
               returned(e, IF e.definition = 1 THEN "Updated successfully"
                           ELSE "Timetable updated successfully.")]
        /\ UNCHANGED NoEdit

update_timetable_entry(s) ==
    \/ UpdateBegin(s)
    \/ UpdateBusyCheck(s)
    \/ UpdateSubjectCheck(s)
    \/ UpdateCapCheck(s)
    \/ UpdateWrite(s)

(* --------------------------- specification ----------------------------- *)

Init ==
    /\ subjects \in SubjectTables
    /\ teachers \in TeacherTables
    /\ absentees \in AbsenceRosters
    /\ periods_per_day \in 1..MaxPeriods
    /\ grades_sections = get_all_grades_sections(subjects)
    /\ teacher_busy_periods = <<>>
    /\ writer = 0
    /\ run = [s \in Sessions |-> IdleRun]
    /\ started = [s \in Sessions |-> 0]
    /\ before = [s \in Sessions |-> <<>>]
    /\ last_commit = <<>>
    /\ view = [grade |-> <<>>, section |-> <<>>, timetable |-> <<>>, during |-> {},
               complete |-> {}]
    /\ random = [seeded |-> FALSE, stream |-> <<>>, pos |-> 1]
    /\ edit = [s \in Sessions |-> IdleEdit]

Generate(s) ==
    \/ ClearTimetable(s)
    \/ AssignGamesAndLibrary(s)
    \/ LoadTeachers(s)
    \/ OuterGrade(s)
    \/ SkipDay(s)
    \/ BeginDay(s)
    \/ WhileTest(s)
    \/ SkipSubject(s)
    \/ PlaceSubject(s)
    \/ Commit(s)

Next == Generate(1)

Spec == Init /\ [][Next]_vars

\* the script runs on until it returns or raises
FairSpec == Spec /\ WF_vars(Next)

\* two browser sessions pressing Generate, and a viewer, on a small school
ConcSubjectTables == {t \in SubjectTables : Len(t) = 1 /\ Len(t[1].active_days) = 1}

ConcTeacherTables == {t \in TeacherTables : Len(t) <= 1}

InitConc ==
    /\ Init
    /\ subjects \in ConcSubjectTables
    /\ teachers \in ConcTeacherTables
    /\ \A d \in DOMAIN absentees : absentees[d] = {}

NextConc ==
    \/ \E s \in Sessions : Generate(s)
    \/ \E s \in Sessions : Fail(s)
    \/ \E s \in Sessions : Rerun(s)
    \/ ReadTimetable

ConcSpec == InitConc /\ [][NextConc]_vars

\* a school whose teachers table already holds Games teachers and a librarian
StaffedTeacherTables ==
    { t \o <<TeacherPool[3], TeacherPool[4],
             [teacher_name |-> "Libby", subject |-> "Library", grades |-> <<G1, G10>>]>> :
      t \in {u \in TeacherTables : \A i \in 1..Len(u) : u[i].subject = "Math"} }

\* subject tables of at most two rows, the first one active on a single day
SeqSubjectTables ==
    {t \in SubjectTables : Len(t) <= 2 /\ Len(t[1].active_days) = 1}

\* one session generating, then generating again on the same input, the generator
\* unseeded or seeded by the caller
InitSeq ==
    /\ subjects \in SeqSubjectTables
    /\ teachers \in TeacherTables \cup StaffedTeacherTables
    /\ absentees \in {a \in AbsenceRosters : \A d \in DOMAIN a : a[d] = {}}
    /\ periods_per_day \in 1..MaxPeriods
    /\ grades_sections = get_all_grades_sections(subjects)
    /\ teacher_busy_periods = <<>>
    /\ writer = 0
    /\ run = [s \in Sessions |-> IdleRun]
    /\ started = [s \in Sessions |-> 0]
    /\ before = [s \in Sessions |-> <<>>]
    /\ last_commit = <<>>
    /\ view = [grade |-> <<>>, section |-> <<>>, timetable |-> <<>>, during |-> {},
               complete |-> {}]
    /\ \E seeded \in BOOLEAN : random = [seeded |-> seeded, stream |-> <<>>, pos |-> 1]
    /\ edit = [s \in Sessions |-> IdleEdit]

NextSeq ==
    \/ Generate(1)
    \/ Rerun(1)

SeqSpec == InitSeq /\ [][NextSeq]_vars

\* a grade whose Math rows differ by section: both sections attend the full week
EditSubjectPool ==
    { [subject_name |-> "Math", grade |-> G1, periods_per_week |-> 5,
       sections |-> <<SecA>>, active_days |-> Days],
      [subject_name |-> "Math", grade |-> G1, periods_per_week |-> 4,
       sections |-> <<SecB>>, active_days |-> Days] }

EditSubjectTables ==
    UNION { {t \in [1..n -> EditSubjectPool] : Injective(t)} : n \in 1..MaxSubjectRows }

\* sessions editing an empty timetable by hand, all bound to one of the definitions
InitEdit ==
    /\ subjects \in EditSubjectTables
    /\ teachers \in {t \in TeacherTables : Len(t) >= 1}
    /\ absentees \in {a \in AbsenceRosters : \A d \in DOMAIN a : a[d] = {}}
    /\ periods_per_day \in 1..MaxPeriods
    /\ grades_sections = get_all_grades_sections(subjects)
    /\ teacher_busy_periods = <<>>
    /\ writer = 0
    /\ run = [s \in Sessions |-> IdleRun]
    /\ started = [s \in Sessions |-> 0]
    /\ before = [s \in Sessions |-> <<>>]
    /\ last_commit = <<>>
    /\ view = [grade |-> <<>>, section |-> <<>>, timetable |-> <<>>, during |-> {},
               complete |-> {}]
    /\ random = [seeded |-> FALSE, stream |-> <<>>, pos |-> 1]
    /\ \E d \in {1, 2} : edit = [s \in Sessions |-> [IdleEdit EXCEPT !.definition = d]]

NextEdit == \E s \in Sessions : update_timetable_entry(s)

EditSpec == InitEdit /\ [][NextEdit]_vars

\* one session editing
NextEditAlone == update_timetable_entry(1)

EditAloneSpec == InitEdit /\ [][NextEditAlone]_vars

(* ------------------------------ claims --------------------------------- *)

Finished == run[1].pc = "done"

stored == teacher_busy_periods

RowIds == 1..Len(stored)

slot_rows(g, sec, day, p) ==
    {i \in RowIds : /\ stored[i].grade = g
                    /\ stored[i].section = sec
                    /\ stored[i].day_of_week = day
                    /\ stored[i].period_number = p}

taught(i) == teachers[stored[i].teacher_id].subject

\* C1: after generate_timetable finishes, two distinct stored assignments with the
\* same weekday, period and teacher have the same grade and section
C1_NoDoubleBooking ==
    Finished =>
        \A i, j \in RowIds :
            (/\ i # j
             /\ stored[i].day_of_week = stored[j].day_of_week
             /\ stored[i].period_number = stored[j].period_number
             /\ stored[i].teacher_id = stored[j].teacher_id)
            => (stored[i].grade = stored[j].grade /\ stored[i].section = stored[j].section)

\* C2: after generate_timetable finishes, every (grade, section, attended weekday,
\* period in 1..periods_per_day) has exactly one stored assignment
C2_FullCoverage ==
    Finished =>
        \A g \in Range(grades_keys) : \A sec \in Range(sections_of(g)) :
            \A day \in Range(active_days_map(g, sec)) : \A p \in 1..periods_per_day :
                Cardinality(slot_rows(g, sec, day, p)) = 1

\* C3: every generation run eventually leaves the placing loop and commits
C3_Terminates == <>Finished

\* C4: after generate_timetable finishes, a section attending all 5 weekdays has, on
\* each weekday, at most 2 assignments per taught subject (the teacher's subject)
C4_DailyCap ==
    Finished =>
        \A g \in Range(grades_keys) : \A sec \in Range(sections_of(g)) :
            Len(active_days_map(g, sec)) = 5 =>
                \A day \in Range(Days) : \A i \in RowIds :
                    Cardinality({j \in RowIds :
                                    /\ stored[j].grade = g
                                    /\ stored[j].section = sec
                                    /\ stored[j].day_of_week = day
                                    /\ taught(j) = taught(i)}) <= 2

\* C5: after generate_timetable finishes, no stored assignment binds a teacher who is
\* on that weekday's absence roster, unless it is a Games substitution
C5_AbsenceRespected ==
    Finished =>
        \A i \in RowIds :
            teachers[stored[i].teacher_id].teacher_name \in absentees[stored[i].day_of_week]
                => taught(i) = "Games"

\* a regular teacher qualified for some placed slot was absent that day, and the run
\* finished with that slot filled
C5_Witness ==
    /\ Finished
    /\ \E i \in RowIds : \E t \in 1..Len(teachers) :
          /\ teachers[t].teacher_name \in absentees[stored[i].day_of_week]
          /\ teachers[t].subject # "Games"
          /\ Listed(teachers[t].grades, stored[i].grade)
          /\ \E r \in 1..Len(subjects) :
                /\ subjects[r].subject_name = teachers[t].subject
                /\ subjects[r].grade = stored[i].grade
                /\ Listed(subjects[r].sections, stored[i].section)
                /\ Listed(subjects[r].active_days, stored[i].day_of_week)

\* C6: after generate_timetable finishes, no teacher has more than 5 assignments on
\* one weekday, over all grades and sections
C6_DailyLoadCeiling ==
    Finished =>
        \A t \in 1..Len(teachers) : \A day \in Range(Days) :
            Cardinality({i \in RowIds : stored[i].teacher_id = t
                                        /\ stored[i].day_of_week = day}) <= 5

\* round(n / d) as Python rounds: to the nearest integer, ties to the even one
round_div(n, d) ==
    LET q == n \div d
        r == n % d
    IN  IF 2 * r < d THEN q
        ELSE IF 2 * r > d THEN q + 1
        ELSE IF q % 2 = 0 THEN q ELSE q + 1

\* max(1, round(periods_per_week * section_active_days / subject_active_days))
rescaled_quota(row, g, sec) ==
    LET q == round_div(row.periods_per_week * Len(active_days_map(g, sec)),
                       Len(row.active_days))
    IN  IF q < 1 THEN 1 ELSE q

\* C7: after generate_timetable finishes, a section's assignments of a subject that
\* applies to it do not exceed the subject's rescaled weekly quota
C7_WeeklyQuota ==
    Finished =>
        \A r \in 1..Len(subjects) : \A sec \in Range(subjects[r].sections) :
            Cardinality({i \in RowIds :
                            /\ stored[i].grade = subjects[r].grade
                            /\ stored[i].section = sec
                            /\ taught(i) = subjects[r].subject_name})
                <= rescaled_quota(subjects[r], subjects[r].grade, sec)

\* C8: when a run fails before its commit (and no other session has generated), the
\* stored assignments are those of before the run
C8_FailureKeepsPrevious ==
    \A s \in Sessions :
        (run[s].pc = "failed" /\ \A t \in Sessions \ {s} : started[t] = 0)
            => stored = before[s]

\* C9: a read of the stored timetable made while a run is between its clear and its
\* commit shows a complete timetable: the one from before a run in progress, or
\* the one the latest finished run wrote
C9_ReaderSeesCompleteGrid ==
    view.during # {} => view.timetable \in view.complete

\* C10: when every session has finished its run, the stored assignments are those
\* written by a single run
C10_RunsSerialized ==
    (\A s \in Sessions : run[s].pc = "done") => stored = last_commit

\* C13: a generation run leaves the rows of teachers and of subjects as they were
C13_InputsReadOnly ==
    [][teachers' = teachers /\ subjects' = subjects]_vars

\* the step appends an assignment row to the run's pending inserts
Places(s) == Len(run'[s].txn) > Len(run[s].txn)

\* the row the step appends
placed_row(s) == run'[s].txn[Len(run'[s].txn)]

\* C14: no assignment is made on behalf of a subject for which no teacher record
\* exists for (grade, subject): whenever the run inserts a row for the subject at
\* hand, some teacher record has that subject and lists the slot's grade
C14_NoTeacherNoAssignment ==
    [][Places(1) =>
          \E t \in 1..Len(teachers) :
              /\ teachers[t].subject = run[1].subs[run[1].k].subject_name
              /\ Listed(teachers[t].grades, cur_grade(run[1]))]_vars

\* the attempt at hand finds no regular teacher available
Substituting(r) ==
    available_teachers(r.teachers_all, r.teacher_load, r.subs[r.k].subject_name,
                       cur_grade(r), cur_day(r), r.period_num) = {}

\* C15: a Games substitute is bound only when it holds no other (grade, section) at
\* that day and period anywhere in the grid and has fewer than 5 assignments that day
C15_SubstituteChecked ==
    [][(Places(1) /\ Substituting(run[1])) =>
          LET old == run[1].txn
              new == placed_row(1)
              same_time == {i \in 1..Len(old) :
                               /\ old[i].teacher_id = new.teacher_id
                               /\ old[i].day_of_week = new.day_of_week
                               /\ old[i].period_number = new.period_number}
              same_day == {i \in 1..Len(old) :
                              /\ old[i].teacher_id = new.teacher_id
                              /\ old[i].day_of_week = new.day_of_week}
          IN  /\ \A i \in same_time :
                    old[i].grade = new.grade /\ old[i].section = new.section
              /\ Cardinality(same_day) < 5]_vars

\* C16: after generate_timetable finishes, every section of every grade has an
\* assignment taught by a Games teacher and one taught by a Library teacher
C16_GamesAndLibraryEverywhere ==
    Finished =>
        \A g \in Range(grades_keys) : \A sec \in Range(sections_of(g)) :
            \A filler \in {"Games", "Library"} :
                \E i \in RowIds : /\ stored[i].grade = g
                                  /\ stored[i].section = sec
                                  /\ taught(i) = filler

\* C19: after generate_timetable finishes, the grade of every stored assignment is
\* one of the items of its teacher's comma-separated grades
C19_TeacherQualifiedForGrade ==
    Finished =>
        \A i \in RowIds : Listed(teachers[stored[i].teacher_id].grades, stored[i].grade)

\* the weekdays common to all subject rows of the grade that list the section
calendar(g, sec) ==
    {d \in Range(Days) :
        \A r \in 1..Len(subjects) :
            (subjects[r].grade = g /\ Listed(subjects[r].sections, sec))
                => Listed(subjects[r].active_days, d)}

\* C20: after generate_timetable finishes, every stored assignment falls on a weekday
\* of its section's calendar, the days common to all subjects applying to the section
C20_WithinCalendar ==
    Finished =>
        \A i \in RowIds : stored[i].day_of_week \in calendar(stored[i].grade, stored[i].section)

\* the second of two runs in a row has finished
SecondRunFinished == Finished /\ started[1] = 2

rows_per_slot(rows, g, sec, day, p) ==
    Cardinality({i \in 1..Len(rows) : /\ rows[i].grade = g
                                      /\ rows[i].section = sec
                                      /\ rows[i].day_of_week = day
                                      /\ rows[i].period_number = p})

\* C11: after the second of two runs in a row, the stored rows are exactly the rows
\* the second run wrote (none of the first run is left), and every slot has as many
\* rows as it had after the first run
C11_FullReplacement ==
    SecondRunFinished =>
        /\ stored = last_commit
        /\ \A g \in Range(grades_keys) : \A sec \in Range(sections_of(g)) :
              \A day \in Range(Days) : \A p \in 1..periods_per_day :
                  rows_per_slot(stored, g, sec, day, p)
                      = rows_per_slot(before[1], g, sec, day, p)

\* the first run stored rows and the second run replaced them by different ones
C11_Witness ==
    /\ SecondRunFinished
    /\ before[1] # <<>>
    /\ stored # <<>>
    /\ stored # before[1]

\* C12: two runs in a row on the same input under the same seed store the same set
\* of assignments
C12_SameSeedSameAssignments ==
    (SecondRunFinished /\ random.seeded) => Range(stored) = Range(before[1])

\* two seeded runs on a teachers table that no run changed, in which the seed
\* decided between two teachers or between two orders of the subjects
C12_Witness ==
    /\ SecondRunFinished
    /\ random.seeded
    /\ \A t \in 1..Len(teachers) :
          teachers[t].teacher_name \notin {"Games Teacher", "Library Teacher"}
    /\ \E i \in 1..Len(random.stream) :
          \/ random.stream[i].fn = "choice" /\ Cardinality(random.stream[i].arg) >= 2
          \/ random.stream[i].fn = "shuffle" /\ Len(random.stream[i].arg) >= 2
    /\ stored # <<>>

\* C17: manual edits, also from two sessions interleaved, never leave a teacher with
\* two stored assignments at one weekday and period in different (grade, section)s
C17_EditsNeverDoubleBook ==
    \A i, j \in RowIds :
        (/\ stored[i].teacher_id = stored[j].teacher_id
         /\ stored[i].day_of_week = stored[j].day_of_week
         /\ stored[i].period_number = stored[j].period_number)
        => (stored[i].grade = stored[j].grade /\ stored[i].section = stored[j].section)

\* C18: after any sequence of calls of the second update_timetable_entry, every
\* full-week (grade, section), weekday and subject has at most 2 stored assignments
C18_EditsKeepDailyCap ==
    edit[1].definition = 2 =>
        \A g \in Range(grades_keys) : \A sec \in Range(sections_of(g)) :
            Len(active_days_map(g, sec)) = FullWeek =>
                \A day \in Range(Days) : \A i \in RowIds :
                    Cardinality({j \in RowIds :
                                    /\ stored[j].grade = g
                                    /\ stored[j].section = sec
                                    /\ stored[j].day_of_week = day
                                    /\ taught(j) = taught(i)}) <= SubjectDayCap

====
